---- MODULE Spec2Model ----
(***************************************************************************)
(* Model of shared::entrypoint (src/shared/src/lib.rs): the off-screen     *)
(* triangle renderer.  One run of entrypoint is a straight line of calls,  *)
(* each of which may panic (unwrap / expect); the GPU executes the one     *)
(* recorded command buffer; the result is read back and saved as           *)
(* triangle.png.  The 1024x1024 image is observed at a finite set of       *)
(* sample pixels.                                                          *)
(***************************************************************************)
EXTENDS Integers, Sequences, FiniteSets, TLC

\* ------------------------------------------------------------------ bounds
\* number of consecutive runs of the program that are explored
MaxRuns == 2
\* the sample grid has GridN x GridN pixels spread over the image
GridN == 3

\* ------------------------------------------------------- program constants
\* Vertex positions (lib.rs 43-51) as exact rationals <<numerator, denominator>>
vertex1 == [position |-> << <<-1, 2>>, <<-1, 2>> >>]
vertex2 == [position |-> << <<0, 1>>, <<1, 2>> >>]
vertex3 == [position |-> << <<1, 2>>, <<-1, 4>> >>]

\* vec![vertex1, vertex2, vertex3] (lib.rs 61)
Vertices == <<vertex1, vertex2, vertex3>>

\* fault variant: a three-channel buffer
OutputBufferLenRgb == 1024 * 1024 * 3

\* (0..1024 * 1024 * 4).map(|_| 0u8) (lib.rs 73): length of the output buffer
OutputBufferLen == 1024 * 1024 * 4

\* fault variant: a viewport of half the image's size
ViewportDefHalf == [origin |-> <<0, 0>>, dimensions |-> <<512, 512>>]

\* Viewport { origin: [0.0, 0.0], dimensions: [1024.0, 1024.0], .. } (lib.rs 84-88)
ViewportDef == [origin |-> <<0, 0>>, dimensions |-> <<1024, 1024>>]

\* fault variant: the attachment is not cleared on entry
RenderPassDefDontCare ==
    [load |-> "DontCare", store |-> "Store", format |-> "R8G8B8A8_UNORM", samples |-> 1]

\* attachment of single_pass_renderpass! (lib.rs 92-107)
RenderPassDef ==
    [load |-> "Clear", store |-> "Store", format |-> "R8G8B8A8_UNORM", samples |-> 1]

\* StorageImage::new(.. Dim2d { width: 1024, height: 1024, array_layers: 1 },
\*                   Format::R8G8B8A8_UNORM, ..) (lib.rs 110-120)
ImageDef == [width |-> 1024, height |-> 1024, array_layers |-> 1, format |-> "R8G8B8A8_UNORM"]

\* clear_values: vec![Some([0.0, 0.0, 1.0, 1.0].into())] (lib.rs 169)
ClearValue == <<0, 0, 1, 1>>

\* fault variant: a draw of no vertices
DrawArgsNone == [vertex_count |-> 0, instance_count |-> 1, first_vertex |-> 0, first_instance |-> 0]

\* .draw(3, 1, 0, 0) (lib.rs 177-182)
DrawArgs == [vertex_count |-> 3, instance_count |-> 1, first_vertex |-> 0, first_instance |-> 0]

\* .bind_vertex_buffers(0, ..) (lib.rs 176)
VertexBinding == 0

\* ImageBuffer::<Rgba<u8>, _>::from_raw(1024, 1024, ..) (lib.rs 200)
ReadDims == [width |-> 1024, height |-> 1024]

\* Rgba<u8>: four channels of one byte each (lib.rs 200)
RgbaChannels == 4

\* image.save("triangle.png") (lib.rs 201)
OutputPath == "triangle.png"

\* ------------------------------------------------------------ pure helpers
\* bytes per texel of a format (lib.rs 98, 117: R8G8B8A8_UNORM is 4 x 8 bit)
FormatBytes(f) == IF f = "R8G8B8A8_UNORM" THEN 4 ELSE IF f = "R8G8B8_UNORM" THEN 3 ELSE 1

\* a float clear channel in [0.0, 1.0] stored as an 8-bit UNORM channel
ToUnorm8(c) == c * 255

\* the clear colour as stored in an R8G8B8A8_UNORM texel
ClearTexel(cv) == <<ToUnorm8(cv[1]), ToUnorm8(cv[2]), ToUnorm8(cv[3]), ToUnorm8(cv[4])>>

ZeroTexel == <<0, 0, 0, 0>>

\* Vertex shader stage (src/shader.vert): passes the 2D position through as the
\* normalized device coordinate.
VertexShader(v) == v.position

\* Viewport transform of the fixed viewport: normalized coordinate n = num/den
\* maps to origin + (n + 1) * dimension / 2.
ViewportAxis(o, d, n) == o + (d * (n[1] + n[2])) \div (2 * n[2])

ViewportTransform(vp, ndc) ==
    << ViewportAxis(vp.origin[1], vp.dimensions[1], ndc[1]),
       ViewportAxis(vp.origin[2], vp.dimensions[2], ndc[2]) >>

\* device-space positions of the vertices of a vertex buffer
DevicePositions(vp, vs) == [i \in 1..Len(vs) |-> ViewportTransform(vp, VertexShader(vs[i]))]

\* twice the edge function of edge a->b at the centre of pixel p
Edge2(a, b, p) ==
    (b[1] - a[1]) * (2 * p[2] + 1 - 2 * a[2]) - (b[2] - a[2]) * (2 * p[1] + 1 - 2 * a[1])

\* Rasterization of a triangle list (InputAssemblyState::new(), lib.rs 146; no
\* culling): pixel p is covered when its centre lies inside the triangle d.
Covered(d, p) ==
    LET e1 == Edge2(d[1], d[2], p)
        e2 == Edge2(d[2], d[3], p)
        e3 == Edge2(d[3], d[1], p)
    IN  \/ (e1 > 0 /\ e2 > 0 /\ e3 > 0)
        \/ (e1 < 0 /\ e2 < 0 /\ e3 < 0)

\* ---------------------------------------------------------- sample pixels
GridPixels ==
    { << (i * ImageDef.width) \div GridN, (j * ImageDef.height) \div GridN >> :
          i \in 0..(GridN - 1), j \in 0..(GridN - 1) }

ProbePixels ==
    { <<448, 416>>, <<512, 544>>, <<576, 448>>,
      <<192, 576>>, <<512, 96>>, <<832, 736>>,
      <<0, 0>>, <<1023, 0>>, <<0, 1023>>, <<1023, 1023>> }

SamplePixels == GridPixels \cup ProbePixels

\* texel index of pixel p in a tightly packed row-major layout of the given width
LinearIndex(p, width) == p[2] * width + p[1]

\* texel indices of the output buffer that the model observes
SampleIndices ==
    { LinearIndex(p, w) : p \in SamplePixels, w \in {ImageDef.width, ReadDims.width} }

\* uninitialized device memory holds an arbitrary value
Garbage == { ZeroTexel, <<255, 255, 255, 255>> }

\* Fragment shader stage (src/shader.frag): one constant colour, other than the
\* clear colour, for every covered pixel.
FragmentOutputs == { <<255, 0, 0, 255>>, <<0, 255, 0, 255>> }

\* what may be at OutputPath before a run
OldPixels == [p \in SamplePixels |-> <<9, 9, 9, 9>>]
NoPixels == [p \in SamplePixels |-> ZeroTexel]
AbsentFile == [state |-> "absent", width |-> 0, height |-> 0, color |-> "none", pixels |-> NoPixels]
OldFile == [state |-> "complete", width |-> 64, height |-> 64, color |-> "Rgba8", pixels |-> OldPixels]
PartialFile == [state |-> "partial", width |-> 0, height |-> 0, color |-> "none", pixels |-> NoPixels]
PriorFiles == { AbsentFile, OldFile }

\* ------------------------------------------------------------------- state
VARIABLES
    run,            \* number of the current run of the program
    pc,             \* position of the run in entrypoint
    failedAt,       \* the step whose unwrap/expect panicked, or "none"
    trace,          \* the steps the run has executed, in order
    live,           \* resources the run holds: <<run, name>>
    vertex_buffer,
    output_buffer,
    viewport,
    render_pass,
    image,
    framebuffer,
    pipeline,
    builder,        \* the AutoCommandBufferBuilder of the closure
    command_buffer, \* the command buffer the closure returns
    gpu,            \* the queue's execution of the submitted command buffer
    buffer_content, \* the read lock's view of the output buffer
    decoded,        \* the ImageBuffer made by from_raw
    file,           \* triangle.png in the working directory
    file0,          \* triangle.png as it was when the run started
    fragColor,      \* the colour the compiled fragment shader writes
    produced,       \* the files written by the runs that succeeded
    successes       \* number of runs that succeeded

procVars ==
    << vertex_buffer, output_buffer, viewport, render_pass, image, framebuffer,
       pipeline, builder, command_buffer, gpu, buffer_content, decoded >>
histVars == << file, file0, fragColor, produced, successes >>
vars == << run, pc, failedAt, trace, live, procVars, histVars >>

\* ------------------------------------------------------------ initial state
NoVertexBuffer == [created |-> FALSE, data |-> <<>>, writes |-> 0]
NoOutputBuffer ==
    [created |-> FALSE, len |-> 0, content |-> [i \in {} |-> ZeroTexel], log |-> <<>>]
NoViewport == [origin |-> <<0, 0>>, dimensions |-> <<0, 0>>]
NoRenderPass == [created |-> FALSE, load |-> "none", store |-> "none", format |-> "none", samples |-> 0]
NoImage == [created |-> FALSE, width |-> 0, height |-> 0, format |-> "none", pixels |-> NoPixels]
NoFramebuffer == [created |-> FALSE, width |-> 0, height |-> 0, format |-> "none"]
NoPipeline == [created |-> FALSE, viewport |-> NoViewport, topology |-> "none"]
NoBuilder ==
    [created |-> FALSE, in_pass |-> FALSE, pipeline_bound |-> FALSE, vb_bound |-> FALSE,
     commands |-> <<>>]
NoCommandBuffer == [built |-> FALSE, commands |-> <<>>, builds |-> 0, submits |-> 0]
IdleGpu ==
    [state |-> "idle", queue |-> <<>>, ip |-> 1, in_pass |-> FALSE, draws |-> 0]
NoContent == [held |-> FALSE, len |-> 0, data |-> [i \in {} |-> ZeroTexel]]
NoDecoded == [ok |-> FALSE, width |-> 0, height |-> 0, pixels |-> NoPixels]

\* the state of a process that has just entered entrypoint
ProcessStart ==
    /\ pc' = "engine_new"
    /\ failedAt' = "none"
    /\ trace' = <<>>
    /\ live' = {}
    /\ vertex_buffer' = NoVertexBuffer
    /\ output_buffer' = NoOutputBuffer
    /\ viewport' = NoViewport
    /\ render_pass' = NoRenderPass
    /\ image' = NoImage
    /\ framebuffer' = NoFramebuffer
    /\ pipeline' = NoPipeline
    /\ builder' = NoBuilder
    /\ command_buffer' = NoCommandBuffer
    /\ gpu' = IdleGpu
    /\ buffer_content' = NoContent
    /\ decoded' = NoDecoded

Init ==
    /\ run = 1
    /\ pc = "engine_new"
    /\ failedAt = "none"
    /\ trace = <<>>
    /\ live = {}
    /\ vertex_buffer = NoVertexBuffer
    /\ output_buffer = NoOutputBuffer
    /\ viewport = NoViewport
    /\ render_pass = NoRenderPass
    /\ image = NoImage
    /\ framebuffer = NoFramebuffer
    /\ pipeline = NoPipeline
    /\ builder = NoBuilder
    /\ command_buffer = NoCommandBuffer
    /\ gpu = IdleGpu
    /\ buffer_content = NoContent
    /\ decoded = NoDecoded
    /\ file \in PriorFiles
    /\ file0 = file
    /\ fragColor \in FragmentOutputs
    /\ produced = {}
    /\ successes = 0

\* ------------------------------------------------------------ control flow
\* fault variant: the output buffer is read before the work is submitted
ProgramReadFirst ==
    << "engine_new", "print_info", "vertex_buffer", "output_buffer", "vertex_shader",
       "fragment_shader", "viewport", "render_pass", "image", "view", "framebuffer",
       "pipeline", "read", "compute", "from_raw", "save", "log_info" >>

\* the statements of entrypoint, in order (lib.rs 35-213)
Program ==
    << "engine_new", "print_info", "vertex_buffer", "output_buffer", "vertex_shader",
       "fragment_shader", "viewport", "render_pass", "image", "view", "framebuffer",
       "pipeline", "compute", "read", "from_raw", "save", "log_info" >>

\* fault variant: the copy is recorded before the render pass
ClosureCopyFirst ==
    << "builder", "copy_image_to_buffer", "begin_render_pass", "bind_pipeline_graphics",
       "bind_vertex_buffers", "draw", "end_render_pass", "build" >>

\* fault variant: the copy to the output buffer is not recorded
ClosureNoCopy ==
    << "builder", "begin_render_pass", "bind_pipeline_graphics", "bind_vertex_buffers",
       "draw", "end_render_pass", "build" >>

\* the statements of the closure handed to compute, in order (lib.rs 158-193)
Closure ==
    << "builder", "begin_render_pass", "bind_pipeline_graphics", "bind_vertex_buffers",
       "draw", "end_render_pass", "copy_image_to_buffer", "build" >>

\* the statements of the resource setup (lib.rs 54-155)
SetupSteps ==
    { "vertex_buffer", "output_buffer", "vertex_shader", "fragment_shader", "render_pass",
      "image", "view", "framebuffer", "pipeline" }

Successor(seq, s, end) ==
    LET i == CHOOSE k \in 1..Len(seq) : seq[k] = s
    IN  IF i = Len(seq) THEN end ELSE seq[i + 1]

\* the statement executed after statement s has completed
After(s) ==
    IF \E k \in 1..Len(Program) : Program[k] = s
    THEN Successor(Program, s, "exited")
    ELSE Successor(Closure, s, "closure_return")

\* a call returned normally: go on with the next statement
Proceed(s) ==
    /\ pc' = After(s)
    /\ trace' = Append(trace, s)
    /\ UNCHANGED << run, failedAt >>

\* fault variant: the error is dropped and the run goes on
AbortIgnored(s) ==
    /\ pc' = IF s \in {"submit", "wait"} THEN "read" ELSE After(s)
    /\ failedAt' = s
    /\ trace' = Append(trace, s)
    /\ UNCHANGED << run, live, procVars, histVars >>

\* unwrap()/expect() on an Err or None: the panic ends the run and unwinding
\* drops everything the run holds
Abort(s) ==
    /\ pc' = "aborted"
    /\ failedAt' = s
    /\ trace' = Append(trace, s)
    /\ live' = {}
    /\ UNCHANGED << run, procVars, histVars >>

Acquire(names) == live' = live \cup { <<run, n>> : n \in names }

\* ----------------------------------------------------------- setup actions
\* ComputeEngine::new() (lib.rs 37)
EngineNew ==
    /\ pc = "engine_new"
    /\ \E ok \in BOOLEAN :
        IF ok
        THEN /\ Proceed("engine_new")
             /\ Acquire({"instance", "device", "queue"})
             /\ UNCHANGED << procVars, histVars >>
        ELSE Abort("engine_new")

\* ComputeEngine::print_api_information(..) (lib.rs 40)
PrintApiInformation ==
    /\ pc = "print_info"
    /\ Proceed("print_info")
    /\ UNCHANGED << live, procVars, histVars >>

\* CpuAccessibleBuffer::from_iter(.., vec![vertex1, vertex2, vertex3]).unwrap() (lib.rs 54-63)
CreateVertexBuffer ==
    /\ pc = "vertex_buffer"
    /\ \E ok \in BOOLEAN :
        IF ok
        THEN /\ Proceed("vertex_buffer")
             /\ Acquire({"vertex_buffer"})
             /\ vertex_buffer' = [created |-> TRUE, data |-> Vertices, writes |-> 1]
             /\ UNCHANGED << output_buffer, viewport, render_pass, image, framebuffer,
                             pipeline, builder, command_buffer, gpu, buffer_content,
                             decoded, histVars >>
        ELSE Abort("vertex_buffer")

\* CpuAccessibleBuffer::from_iter(.., (0..1024*1024*4).map(|_| 0u8)).expect(..) (lib.rs 66-75)
CreateOutputBuffer ==
    /\ pc = "output_buffer"
    /\ \E ok \in BOOLEAN :
        IF ok
        THEN /\ Proceed("output_buffer")
             /\ Acquire({"output_buffer"})
             /\ output_buffer' =
                  [created |-> TRUE,
                   len |-> OutputBufferLen,
                   content |-> [i \in { j \in SampleIndices : (j + 1) * RgbaChannels <= OutputBufferLen }
                                  |-> ZeroTexel],
                   log |-> << [ev |-> "create", gpu |-> gpu.state] >>]
             /\ UNCHANGED << vertex_buffer, viewport, render_pass, image, framebuffer,
                             pipeline, builder, command_buffer, gpu, buffer_content,
                             decoded, histVars >>
        ELSE Abort("output_buffer")

\* shader_vertex::load(..).expect(..) (lib.rs 78-79)
LoadVertexShader ==
    /\ pc = "vertex_shader"
    /\ \E ok \in BOOLEAN :
        IF ok
        THEN /\ Proceed("vertex_shader")
             /\ Acquire({"vertex_shader"})
             /\ UNCHANGED << procVars, histVars >>
        ELSE Abort("vertex_shader")

\* shader_fragment::load(..).expect(..) (lib.rs 80-81)
LoadFragmentShader ==
    /\ pc = "fragment_shader"
    /\ \E ok \in BOOLEAN :
        IF ok
        THEN /\ Proceed("fragment_shader")
             /\ Acquire({"fragment_shader"})
             /\ UNCHANGED << procVars, histVars >>
        ELSE Abort("fragment_shader")

\* let viewport = Viewport { .. } (lib.rs 84-88)
DefineViewport ==
    /\ pc = "viewport"
    /\ Proceed("viewport")
    /\ viewport' = ViewportDef
    /\ UNCHANGED << live, vertex_buffer, output_buffer, render_pass, image, framebuffer,
                    pipeline, builder, command_buffer, gpu, buffer_content, decoded,
                    histVars >>

\* vulkano::single_pass_renderpass!(..).unwrap() (lib.rs 92-107)
CreateRenderPass ==
    /\ pc = "render_pass"
    /\ \E ok \in BOOLEAN :
        IF ok
        THEN /\ Proceed("render_pass")
             /\ Acquire({"render_pass"})
             /\ render_pass' =
                  [created |-> TRUE, load |-> RenderPassDef.load, store |-> RenderPassDef.store,
                   format |-> RenderPassDef.format, samples |-> RenderPassDef.samples]
             /\ UNCHANGED << vertex_buffer, output_buffer, viewport, image, framebuffer,
                             pipeline, builder, command_buffer, gpu, buffer_content,
                             decoded, histVars >>
        ELSE Abort("render_pass")

\* StorageImage::new(..).unwrap() (lib.rs 110-120); the new image's memory is
\* uninitialized
CreateImage ==
    /\ pc = "image"
    /\ \E ok \in BOOLEAN, g \in Garbage :
        IF ok
        THEN /\ Proceed("image")
             /\ Acquire({"image"})
             /\ image' =
                  [created |-> TRUE, width |-> ImageDef.width, height |-> ImageDef.height,
                   format |-> ImageDef.format, pixels |-> [p \in SamplePixels |-> g]]
             /\ UNCHANGED << vertex_buffer, output_buffer, viewport, render_pass,
                             framebuffer, pipeline, builder, command_buffer, gpu,
                             buffer_content, decoded, histVars >>
        ELSE Abort("image")

\* ImageView::new_default(image.clone()).unwrap() (lib.rs 124)
CreateImageView ==
    /\ pc = "view"
    /\ \E ok \in BOOLEAN :
        IF ok
        THEN /\ Proceed("view")
             /\ Acquire({"view"})
             /\ UNCHANGED << procVars, histVars >>
        ELSE Abort("view")

\* Framebuffer::new(render_pass.clone(), .. attachments: vec![view] ..).unwrap()
\* (lib.rs 129-136); the attachment's format must be the render pass's
CreateFramebuffer ==
    /\ pc = "framebuffer"
    /\ \E ok \in BOOLEAN :
        IF ok /\ image.format = render_pass.format
        THEN /\ Proceed("framebuffer")
             /\ Acquire({"framebuffer"})
             /\ framebuffer' =
                  [created |-> TRUE, width |-> image.width, height |-> image.height,
                   format |-> image.format]
             /\ UNCHANGED << vertex_buffer, output_buffer, viewport, render_pass, image,
                             pipeline, builder, command_buffer, gpu, buffer_content,
                             decoded, histVars >>
        ELSE Abort("framebuffer")

\* GraphicsPipeline::start() .. .build(..).unwrap() (lib.rs 139-155)
CreatePipeline ==
    /\ pc = "pipeline"
    /\ \E ok \in BOOLEAN :
        IF ok
        THEN /\ Proceed("pipeline")
             /\ Acquire({"pipeline"})
             /\ pipeline' = [created |-> TRUE, viewport |-> viewport, topology |-> "TriangleList"]
             /\ UNCHANGED << vertex_buffer, output_buffer, viewport, render_pass, image,
                             framebuffer, builder, command_buffer, gpu, buffer_content,
                             decoded, histVars >>
        ELSE Abort("pipeline")

\* ------------------------------------------------- the closure (lib.rs 158-193)
Record(op, args) == builder' = [builder EXCEPT !.commands = Append(@, [op |-> op, args |-> args])]

\* AutoCommandBufferBuilder::primary(.., OneTimeSubmit).unwrap() (lib.rs 159-164)
NewBuilder ==
    /\ pc = "builder"
    /\ \E ok \in BOOLEAN :
        IF ok
        THEN /\ Proceed("builder")
             /\ builder' = [NoBuilder EXCEPT !.created = TRUE]
             /\ UNCHANGED << live, vertex_buffer, output_buffer, viewport, render_pass,
                             image, framebuffer, pipeline, command_buffer, gpu,
                             buffer_content, decoded, histVars >>
        ELSE Abort("builder")

\* .begin_render_pass(RenderPassBeginInfo { clear_values: .., ..framebuffer }, Inline)
\* .unwrap() (lib.rs 167-174)
BeginRenderPass ==
    /\ pc = "begin_render_pass"
    /\ \E ok \in BOOLEAN :
        IF ok /\ ~builder.in_pass
        THEN /\ Proceed("begin_render_pass")
             /\ builder' = [builder EXCEPT
                               !.commands = Append(@, [op |-> "begin_render_pass", args |-> ClearValue]),
                               !.in_pass = TRUE]
             /\ UNCHANGED << live, vertex_buffer, output_buffer, viewport, render_pass,
                             image, framebuffer, pipeline, command_buffer, gpu,
                             buffer_content, decoded, histVars >>
        ELSE Abort("begin_render_pass")

\* .bind_pipeline_graphics(pipeline.clone()) (lib.rs 175)
BindPipelineGraphics ==
    /\ pc = "bind_pipeline_graphics"
    /\ Proceed("bind_pipeline_graphics")
    /\ builder' = [builder EXCEPT
                      !.commands = Append(@, [op |-> "bind_pipeline_graphics", args |-> <<>>]),
                      !.pipeline_bound = TRUE]
    /\ UNCHANGED << live, vertex_buffer, output_buffer, viewport, render_pass, image,
                    framebuffer, pipeline, command_buffer, gpu, buffer_content, decoded,
                    histVars >>

\* .bind_vertex_buffers(0, vertex_buffer.clone()) (lib.rs 176)
BindVertexBuffers ==
    /\ pc = "bind_vertex_buffers"
    /\ Proceed("bind_vertex_buffers")
    /\ builder' = [builder EXCEPT
                      !.commands = Append(@, [op |-> "bind_vertex_buffers", args |-> <<VertexBinding>>]),
                      !.vb_bound = TRUE]
    /\ UNCHANGED << live, vertex_buffer, output_buffer, viewport, render_pass, image,
                    framebuffer, pipeline, command_buffer, gpu, buffer_content, decoded,
                    histVars >>

\* .draw(3, 1, 0, 0).unwrap() (lib.rs 177-183): refused outside a render pass or
\* without a bound pipeline and vertex buffer
Draw ==
    /\ pc = "draw"
    /\ \E ok \in BOOLEAN :
        IF ok /\ builder.in_pass /\ builder.pipeline_bound /\ builder.vb_bound
        THEN /\ Proceed("draw")
             /\ Record("draw", << DrawArgs.vertex_count, DrawArgs.instance_count,
                                  DrawArgs.first_vertex, DrawArgs.first_instance >>)
             /\ UNCHANGED << live, vertex_buffer, output_buffer, viewport, render_pass,
                             image, framebuffer, pipeline, command_buffer, gpu,
                             buffer_content, decoded, histVars >>
        ELSE Abort("draw")

\* .end_render_pass().unwrap() (lib.rs 184-185)
EndRenderPass ==
    /\ pc = "end_render_pass"
    /\ \E ok \in BOOLEAN :
        IF ok /\ builder.in_pass
        THEN /\ Proceed("end_render_pass")
             /\ builder' = [builder EXCEPT
                               !.commands = Append(@, [op |-> "end_render_pass", args |-> <<>>]),
                               !.in_pass = FALSE]
             /\ UNCHANGED << live, vertex_buffer, output_buffer, viewport, render_pass,
                             image, framebuffer, pipeline, command_buffer, gpu,
                             buffer_content, decoded, histVars >>
        ELSE Abort("end_render_pass")

\* .copy_image_to_buffer(CopyImageToBufferInfo::image_buffer(image, output_buffer))
\* .unwrap() (lib.rs 186-190): refused inside a render pass or when the buffer is
\* smaller than the image
CopyImageToBuffer ==
    /\ pc = "copy_image_to_buffer"
    /\ \E ok \in BOOLEAN :
        IF /\ ok
           /\ ~builder.in_pass
           /\ image.width * image.height * FormatBytes(image.format) <= output_buffer.len
        THEN /\ Proceed("copy_image_to_buffer")
             /\ Record("copy_image_to_buffer", <<>>)
             /\ UNCHANGED << live, vertex_buffer, output_buffer, viewport, render_pass,
                             image, framebuffer, pipeline, command_buffer, gpu,
                             buffer_content, decoded, histVars >>
        ELSE Abort("copy_image_to_buffer")

\* builder.build().unwrap() (lib.rs 192)
Build ==
    /\ pc = "build"
    /\ \E ok \in BOOLEAN :
        IF ok /\ ~builder.in_pass
        THEN /\ Proceed("build")
             /\ command_buffer' = [command_buffer EXCEPT
                                      !.built = TRUE,
                                      !.commands = builder.commands,
                                      !.builds = @ + 1]
             /\ UNCHANGED << live, vertex_buffer, output_buffer, viewport, render_pass,
                             image, framebuffer, pipeline, builder, gpu, buffer_content,
                             decoded, histVars >>
        ELSE Abort("build")

\* ------------------------------------------- compute and the GPU's execution
\* compute_engine.compute(&|..| { .. }) (lib.rs 158): compute invokes the closure
ComputeCall ==
    /\ pc = "compute"
    /\ pc' = Closure[1]
    /\ trace' = Append(trace, "compute")
    /\ UNCHANGED << run, failedAt, live, procVars, histVars >>

\* compute hands the closure's command buffer to the queue
ComputeSubmit ==
    /\ pc = "closure_return"
    /\ \E ok \in BOOLEAN :
        IF ok
        THEN /\ pc' = "wait"
             /\ trace' = Append(trace, "submit")
             /\ command_buffer' = [command_buffer EXCEPT !.submits = @ + 1]
             /\ gpu' = [gpu EXCEPT
                           !.state = IF Len(command_buffer.commands) = 0 THEN "finished" ELSE "running",
                           !.queue = command_buffer.commands,
                           !.ip = 1]
             /\ UNCHANGED << run, failedAt, live, vertex_buffer, output_buffer, viewport,
                             render_pass, image, framebuffer, pipeline, builder,
                             buffer_content, decoded, histVars >>
        ELSE Abort("submit")

\* pixels of the colour attachment after the render pass has begun
LoadAttachment(pixels, clear, g) ==
    IF render_pass.load = "Clear" THEN [p \in SamplePixels |-> ClearTexel(clear)]
    ELSE IF render_pass.load = "Load" THEN pixels
    ELSE [p \in SamplePixels |-> g]

\* pixels of the colour attachment after the render pass has ended
StoreAttachment(pixels, g) ==
    IF render_pass.store = "Store" THEN pixels ELSE [p \in SamplePixels |-> g]

\* pixels after a draw of a triangle list: args = <<vertex_count, instance_count,
\* first_vertex, first_instance>>
Rasterize(pixels, args) ==
    LET last == IF args[3] + args[1] <= Len(vertex_buffer.data)
                THEN args[3] + args[1] ELSE Len(vertex_buffer.data)
        vs == SubSeq(vertex_buffer.data, args[3] + 1, last)
        d == DevicePositions(pipeline.viewport, vs)
        triangles == IF args[2] >= 1 THEN 0..((Len(vs) \div 3) - 1) ELSE {}
        inside(p) == p[1] < framebuffer.width /\ p[2] < framebuffer.height
        hit(p) == \E t \in triangles :
                      Covered(<< d[3 * t + 1], d[3 * t + 2], d[3 * t + 3] >>, p)
    IN  [p \in SamplePixels |-> IF inside(p) /\ hit(p) THEN fragColor ELSE pixels[p]]

\* contents of the buffer after the image has been copied into it, tightly packed
CopiedContent(content) ==
    [i \in DOMAIN content |->
        IF \E p \in SamplePixels :
               p[1] < image.width /\ p[2] < image.height /\ LinearIndex(p, image.width) = i
        THEN image.pixels[CHOOSE p \in SamplePixels :
                              p[1] < image.width /\ p[2] < image.height
                              /\ LinearIndex(p, image.width) = i]
        ELSE content[i]]

\* the queue executes the next command of the submitted command buffer
GpuStep ==
    /\ pc = "wait"
    /\ gpu.state = "running"
    /\ LET cmd == gpu.queue[gpu.ip] IN
       \E g \in Garbage :
        /\ image' = [image EXCEPT !.pixels =
                        IF cmd.op = "begin_render_pass" THEN LoadAttachment(@, cmd.args, g)
                        ELSE IF cmd.op = "draw" THEN Rasterize(@, cmd.args)
                        ELSE IF cmd.op = "end_render_pass" THEN StoreAttachment(@, g)
                        ELSE @]
        /\ output_buffer' =
             IF cmd.op = "copy_image_to_buffer"
             THEN [output_buffer EXCEPT
                      !.content = CopiedContent(@),
                      !.log = Append(@, [ev |-> "gpu_copy", gpu |-> gpu.state])]
             ELSE output_buffer
        /\ gpu' = [gpu EXCEPT
                      !.ip = @ + 1,
                      !.state = IF gpu.ip = Len(gpu.queue) THEN "finished" ELSE "running",
                      !.in_pass = IF cmd.op = "begin_render_pass" THEN TRUE
                                  ELSE IF cmd.op = "end_render_pass" THEN FALSE ELSE @,
                      !.draws = IF cmd.op = "draw" THEN @ + 1 ELSE @]
    /\ UNCHANGED << run, pc, failedAt, trace, live, vertex_buffer, viewport, render_pass,
                    framebuffer, pipeline, builder, command_buffer, buffer_content,
                    decoded, histVars >>

\* compute returns once the queue has finished the command buffer
ComputeWait ==
    /\ pc = "wait"
    /\ gpu.state = "finished"
    /\ \E ok \in BOOLEAN :
        IF ok
        THEN /\ pc' = After("compute")
             /\ trace' = Append(trace, "wait")
             /\ UNCHANGED << run, failedAt, live, procVars, histVars >>
        ELSE Abort("wait")

\* ---------------------------------------------------- readback and saving
\* output_buffer.read().unwrap() (lib.rs 199)
Read ==
    /\ pc = "read"
    /\ \E ok \in BOOLEAN :
        IF ok /\ output_buffer.created
        THEN /\ Proceed("read")
             /\ buffer_content' =
                  [held |-> TRUE, len |-> output_buffer.len, data |-> output_buffer.content]
             /\ output_buffer' = [output_buffer EXCEPT
                                     !.log = Append(@, [ev |-> "cpu_read", gpu |-> gpu.state])]
             /\ UNCHANGED << live, vertex_buffer, viewport, render_pass, image, framebuffer,
                             pipeline, builder, command_buffer, gpu, decoded, histVars >>
        ELSE Abort("read")

\* the pixels from_raw(width, height, data) presents: pixel (x, y) is the texel at
\* index y * width + x of data
FromRawPixels(width, height, data) ==
    [p \in SamplePixels |->
        IF p[1] < width /\ p[2] < height /\ LinearIndex(p, width) \in DOMAIN data
        THEN data[LinearIndex(p, width)]
        ELSE ZeroTexel]

\* ImageBuffer::<Rgba<u8>, _>::from_raw(1024, 1024, &buffer_content[..]).unwrap()
\* (lib.rs 200): None when the slice is shorter than width * height * 4
FromRaw ==
    /\ pc = "from_raw"
    /\ IF ReadDims.width * ReadDims.height * RgbaChannels <= buffer_content.len
       THEN /\ Proceed("from_raw")
            /\ decoded' =
                 [ok |-> TRUE, width |-> ReadDims.width, height |-> ReadDims.height,
                  pixels |-> FromRawPixels(ReadDims.width, ReadDims.height, buffer_content.data)]
            /\ UNCHANGED << live, vertex_buffer, output_buffer, viewport, render_pass,
                            image, framebuffer, pipeline, builder, command_buffer, gpu,
                            buffer_content, histVars >>
       ELSE Abort("from_raw")

\* fault variant: an existing file is kept
SavedFileKeepOld(img) ==
    IF file.state = "complete"
    THEN file
    ELSE [state |-> "complete", width |-> img.width, height |-> img.height,
          color |-> "Rgba8", pixels |-> img.pixels]

\* the file a completed save leaves at OutputPath
SavedFile(img) ==
    [state |-> "complete", width |-> img.width, height |-> img.height, color |-> "Rgba8",
     pixels |-> img.pixels]

\* image.save("triangle.png").unwrap() (lib.rs 201): the file is created or
\* truncated, then the encoded image is written to it; either step can fail
Save ==
    /\ pc = "save"
    /\ \E outcome \in {"ok", "create_failed", "write_failed"} :
        IF outcome = "ok"
        THEN /\ Proceed("save")
             /\ file' = SavedFile(decoded)
             /\ produced' = produced \cup {SavedFile(decoded)}
             /\ UNCHANGED << live, procVars, file0, fragColor, successes >>
        ELSE IF outcome = "create_failed"
        THEN Abort("save")
        ELSE /\ pc' = "aborted"
             /\ failedAt' = "save"
             /\ trace' = Append(trace, "save")
             /\ live' = {}
             /\ file' = PartialFile
             /\ UNCHANGED << run, procVars, file0, fragColor, produced, successes >>

\* log::info!("Successfully saved image") and the return of entrypoint, which
\* drops every local (lib.rs 206-213)
LogInfo ==
    /\ pc = "log_info"
    /\ Proceed("log_info")
    /\ live' = {}
    /\ successes' = successes + 1
    /\ UNCHANGED << procVars, file, file0, fragColor, produced >>

\* the program is started again
Restart ==
    /\ pc \in {"exited", "aborted"}
    /\ run < MaxRuns
    /\ run' = run + 1
    /\ ProcessStart
    /\ file0' = file
    /\ UNCHANGED << file, fragColor, produced, successes >>

Next ==
    \/ EngineNew
    \/ PrintApiInformation
    \/ CreateVertexBuffer
    \/ CreateOutputBuffer
    \/ LoadVertexShader
    \/ LoadFragmentShader
    \/ DefineViewport
    \/ CreateRenderPass
    \/ CreateImage
    \/ CreateImageView
    \/ CreateFramebuffer
    \/ CreatePipeline
    \/ ComputeCall
    \/ NewBuilder
    \/ BeginRenderPass
    \/ BindPipelineGraphics
    \/ BindVertexBuffers
    \/ Draw
    \/ EndRenderPass
    \/ CopyImageToBuffer
    \/ Build
    \/ ComputeSubmit
    \/ GpuStep
    \/ ComputeWait
    \/ Read
    \/ FromRaw
    \/ Save
    \/ LogInfo
    \/ Restart

Spec == Init /\ [][Next]_vars

\* ===================================================================== claims
IsPrefix(a, b) == Len(a) <= Len(b) /\ \A i \in 1..Len(a) : a[i] = b[i]

BlueOpaque == <<0, 0, 255, 255>>

ExpectedCommands ==
    << [op |-> "begin_render_pass", args |-> <<0, 0, 1, 1>>],
       [op |-> "bind_pipeline_graphics", args |-> <<>>],
       [op |-> "bind_vertex_buffers", args |-> <<0>>],
       [op |-> "draw", args |-> <<3, 1, 0, 0>>],
       [op |-> "end_render_pass", args |-> <<>>],
       [op |-> "copy_image_to_buffer", args |-> <<>>] >>

OpsBefore(cs, i) == { cs[j].op : j \in 1..(i - 1) }

\* the run ran to the end of entrypoint without a panic
Succeeded == pc \in {"log_info", "exited"} /\ failedAt = "none"

\* every step of a run, in the order of execution
FullOrder ==
    << "engine_new", "print_info", "vertex_buffer", "output_buffer", "vertex_shader",
       "fragment_shader", "viewport", "render_pass", "image", "view", "framebuffer",
       "pipeline", "compute", "builder", "begin_render_pass", "bind_pipeline_graphics",
       "bind_vertex_buffers", "draw", "end_render_pass", "copy_image_to_buffer", "build",
       "submit", "wait", "read", "from_raw", "save", "log_info" >>

\* C1: the commands recorded by the closure are always a prefix of, and the built
\* command buffer is exactly, the six commands begin render pass (clear to blue,
\* opaque), bind pipeline, bind vertex buffer at slot 0, draw (3, 1, 0, 0), end
\* render pass, copy image to buffer; so a draw is recorded only inside the render
\* pass and after both binds, and the copy only after the render pass has ended.
C1_CommandSequence ==
    LET cs == builder.commands IN
    /\ IsPrefix(cs, ExpectedCommands)
    /\ command_buffer.built =>
         /\ command_buffer.commands = ExpectedCommands
         /\ Len(command_buffer.commands) = 6
    /\ \A i \in 1..Len(cs) :
         /\ cs[i].op = "begin_render_pass" => ClearTexel(cs[i].args) = BlueOpaque
         /\ cs[i].op = "draw" =>
              /\ {"begin_render_pass", "bind_pipeline_graphics", "bind_vertex_buffers"}
                     \subseteq OpsBefore(cs, i)
              /\ "end_render_pass" \notin OpsBefore(cs, i)
         /\ cs[i].op = "copy_image_to_buffer" => "end_render_pass" \in OpsBefore(cs, i)

C1_Witness == command_buffer.built /\ pc = "closure_return" /\ Len(command_buffer.commands) = 6

\* C2: compute returns only when the GPU has finished the command buffer: every
\* CPU read of the output buffer happens with the GPU finished and after the GPU's
\* copy into the buffer, and so does the save.
C2_ReadAfterGpuCopy ==
    LET log == output_buffer.log IN
    /\ \A i \in 1..Len(log) :
         log[i].ev = "cpu_read" =>
           /\ log[i].gpu = "finished"
           /\ \E j \in 1..(i - 1) : log[j].ev = "gpu_copy"
    /\ pc \in {"read", "from_raw", "save", "log_info", "exited"} => gpu.state = "finished"
    /\ (\E i \in 1..Len(trace) : trace[i] = "save") =>
         /\ gpu.state = "finished"
         /\ \E j \in 1..Len(log) : log[j].ev = "gpu_copy"

C2_Witness ==
    /\ pc = "from_raw"
    /\ \E i \in 1..Len(output_buffer.log) : output_buffer.log[i].ev = "cpu_read"

\* C3: when a resource allocation of the setup fails, the run is aborted with no
\* draw command recorded or executed and triangle.png as it was before the run.
C3_SetupFailureAborts ==
    failedAt \in SetupSteps =>
      /\ pc = "aborted"
      /\ \A i \in 1..Len(builder.commands) : builder.commands[i].op # "draw"
      /\ gpu.draws = 0
      /\ file = file0

C3_Witness == pc = "aborted" /\ failedAt = "pipeline" /\ file0 = OldFile

\* C4 as stated: whatever step fails, the run stops there, no step is run twice,
\* and no partially written triangle.png is left.
C4_NoPartialOutput ==
    failedAt # "none" =>
      /\ pc = "aborted"
      /\ IsPrefix(trace, FullOrder)
      /\ trace[Len(trace)] = failedAt
      /\ file.state # "partial"

\* C4 amended: whatever step fails, the run stops there and no step is run twice;
\* a failure before the save leaves triangle.png as it was before the run (only a
\* failure of the save itself may leave a partially written file).
C4_FirstFailureStops ==
    /\ IsPrefix(trace, FullOrder)
    /\ failedAt # "none" =>
         /\ pc = "aborted"
         /\ trace[Len(trace)] = failedAt
         /\ failedAt # "save" => file = file0
         /\ file # file0 => file = PartialFile

C4_Witness == pc = "aborted" /\ failedAt = "save" /\ file = PartialFile /\ file0 = OldFile

\* C5: a run without failure ends with triangle.png holding the 1024x1024 RGBA8
\* image made of the output buffer's contents, whatever was there before.
C5_OutputFile ==
    Succeeded =>
      /\ file.state = "complete"
      /\ file.width = 1024 /\ file.height = 1024 /\ file.color = "Rgba8"
      /\ \A p \in SamplePixels : file.pixels[p] = output_buffer.content[p[2] * 1024 + p[1]]
      /\ file # OldFile

C5_Witness == pc = "exited" /\ failedAt = "none" /\ file0 = OldFile /\ run = 1

ExpectedDevice == << <<256, 256>>, <<512, 768>>, <<768, 384>> >>

\* C6: in the image of a run without failure, every pixel outside the triangle is
\* the clear colour (0, 0, 255, 255) and every pixel inside differs from it.
C6_PixelColours ==
    Succeeded =>
      \A p \in SamplePixels :
        IF Covered(ExpectedDevice, p)
        THEN file.pixels[p] # BlueOpaque
        ELSE file.pixels[p] = BlueOpaque

C6_Witness ==
    /\ pc = "exited" /\ failedAt = "none"
    /\ \E p \in SamplePixels : file.pixels[p] # BlueOpaque
    /\ \E p \in SamplePixels : file.pixels[p] = BlueOpaque

\* C7: all runs that succeed write the same image, and a run holds only resources
\* it acquired itself and none once it has ended.
C7_Deterministic ==
    /\ Cardinality(produced) <= 1
    /\ \A r \in live : r[1] = run
    /\ pc \in {"exited", "aborted"} => live = {}

C7_Witness == run = 2 /\ successes = 2 /\ pc = "exited" /\ Cardinality(produced) = 1

OutputEvents == [i \in 1..Len(output_buffer.log) |-> output_buffer.log[i].ev]

\* C8: at most one command buffer is built and submitted, at most one draw is
\* executed, the vertex buffer is written at creation only, and the output buffer
\* is created, then written once by the GPU copy, then read once by the CPU; a run
\* without failure does each exactly once.
C8_SingleUse ==
    /\ command_buffer.builds <= 1 /\ command_buffer.submits <= 1 /\ gpu.draws <= 1
    /\ vertex_buffer.writes = (IF vertex_buffer.created THEN 1 ELSE 0)
    /\ IsPrefix(OutputEvents, <<"create", "gpu_copy", "cpu_read">>)
    /\ Succeeded =>
         /\ command_buffer.builds = 1 /\ command_buffer.submits = 1 /\ gpu.draws = 1
         /\ vertex_buffer.writes = 1
         /\ OutputEvents = <<"create", "gpu_copy", "cpu_read">>
         /\ live = {} \/ pc = "log_info"

C8_Witness == pc = "exited" /\ failedAt = "none" /\ Len(output_buffer.log) = 3

\* C9: the output buffer has 1024*1024*4 = 4194304 bytes, which is the size of the
\* 1024x1024 R8G8B8A8_UNORM image and the size from_raw asks for; the image has
\* the render pass's format and the viewport's dimensions; neither the copy nor
\* from_raw is ever refused.
C9_SizesAgree ==
    /\ output_buffer.created => output_buffer.len = 4194304
    /\ image.created =>
         /\ image.width = 1024 /\ image.height = 1024 /\ image.format = "R8G8B8A8_UNORM"
         /\ image.width * image.height * FormatBytes(image.format) = 4194304
    /\ (image.created /\ render_pass.created) => image.format = render_pass.format
    /\ (image.created /\ pipeline.created) =>
         pipeline.viewport.dimensions = <<image.width, image.height>>
    /\ buffer_content.held =>
         buffer_content.len = ReadDims.width * ReadDims.height * RgbaChannels
    /\ decoded.ok => decoded.width * decoded.height * 4 = output_buffer.len
    /\ failedAt # "from_raw"
    /\ pc = "save" => decoded.ok

C9_Witness == pc = "save" /\ decoded.ok /\ buffer_content.held

\* a point with integer weights a + b + c = 4 on the expected device positions
Weighted(a, b, c) ==
    << (a * ExpectedDevice[1][1] + b * ExpectedDevice[2][1] + c * ExpectedDevice[3][1]) \div 4,
       (a * ExpectedDevice[1][2] + b * ExpectedDevice[2][2] + c * ExpectedDevice[3][2]) \div 4 >>

\* convex combinations with positive weights lie inside the triangle
KnownInterior == { Weighted(2, 1, 1), Weighted(1, 2, 1), Weighted(1, 1, 2) }

\* combinations with a negative weight, and the image's corners, lie outside
KnownExterior ==
    { Weighted(3, 3, -2), Weighted(3, -2, 3), Weighted(-2, 3, 3),
      <<0, 0>>, <<1023, 0>>, <<0, 1023>>, <<1023, 1023>> }

\* C10: the viewport maps the three vertices to (256,256), (512,768), (768,384),
\* all inside the image; after the draw the known interior pixels are covered and
\* the known exterior pixels are not.
C10_ViewportAndCoverage ==
    /\ (pipeline.created /\ vertex_buffer.created) =>
         LET d == DevicePositions(pipeline.viewport, vertex_buffer.data) IN
         /\ d = ExpectedDevice
         /\ \A i \in 1..3 : d[i][1] \in 0..1023 /\ d[i][2] \in 0..1023
    /\ gpu.draws >= 1 =>
         /\ \A p \in KnownInterior : image.pixels[p] = fragColor
         /\ \A p \in KnownExterior : image.pixels[p] # fragColor

C10_Witness == pc = "wait" /\ gpu.draws = 1 /\ gpu.in_pass
====
